---- MODULE Spec2Model ----
(***************************************************************************)
(* Model of the LoRA crop-tag helper (src/main.py, src/face_crop.py):      *)
(* the square crop box of class CropBox, the pointer handlers bound to the *)
(* canvas, and the image cycle of class App.                               *)
(*                                                                         *)
(* Arithmetic.  The pointer positions of Tk events are integers; the       *)
(* handlers divide pointer deltas by the display scale s, so box           *)
(* coordinates are rationals.  The scale is kept as a fraction sn/sd in    *)
(* lowest terms (s[1] = sn, s[2] = sd) and every original-pixel coordinate *)
(* of the cropper (box, start_box) is stored multiplied by sn, i.e. as an  *)
(* exact count of 1/sn pixels.  Display coordinates (handles) are stored   *)
(* multiplied by sd.  The geometry operators take the unit u (= sn) as     *)
(* their last parameter; with u = 1 they are the Python functions on       *)
(* integers.  Python lists are 0-based, TLA+ tuples 1-based: b[0..3] of    *)
(* the source is b[1..4] here.  The code's numbers are Python floats: the  *)
(* model covers the display scales of Scales, where the float results      *)
(* equal the rationals, and says nothing about other scales.               *)
(***************************************************************************)
EXTENDS Integers, Sequences, FiniteSets, TLC

\* ---------------------------------------------------------------- bounds
\* number of image files found in the input folder
NumImages == 2
\* number of button presses in one run
MaxGestures == 2
\* settings.yaml crop_size, chosen to fit the model's small images
crop_size == 16
\* largest image side in the direct calls of CropBox and find_face_square
MaxDim == 6
\* largest pointer travel per axis, in display pixels, of a single drag
MaxDelta == 5

\* ------------------------------------------------------ program constants
HANDLE_R == 6
MIN_SIDE == 10
pad_px == 300

\* ------------------------------------------------------------ input sets
\* pixel sizes of the image files, by index in img_paths
ImgW(i) == IF i % 2 = 0 THEN 30 ELSE 24
ImgH(i) == IF i % 2 = 0 THEN 24 ELSE 30
\* canvas sizes (winfo_width, winfo_height) seen by load_img
CanvasSizes == {<<60, 60>>, <<40, 40>>}
\* the display scales these give, as <<sn, sd>>.  The code computes in
\* binary floating point; at these scales every quotient d / s of a
\* pointer delta and every product c * s compared with a pointer position
\* comes out as the exact rational.  At other scales (0.56 = 14/25, 5/6)
\* the floats differ from the rationals, so the operators that divide or
\* compare (in_rect, drag_box) are defined for these scales only.
Scales == {<<1, 1>>, <<2, 3>>}
\* pointer positions of the mouse events, in display pixels
Ptr == {<<10, 5>>, <<27, 5>>, <<27, 23>>, <<2, 23>>, <<15, 13>>, <<2, 13>>}
\* what the face detector reports: nothing, or a rectangle
\* <<x0, y0, bw, bh>> in pixels (face_crop.py lines 38-41)
NoFace == <<>>
Detections == {NoFace, <<20, 2, 6, 8>>}
None == <<>>

\* ---------------------------------------------------------------- helpers
Min(a, b) == IF a <= b THEN a ELSE b
Max(a, b) == IF a >= b THEN a ELSE b
Abs(a) == IF a < 0 THEN -a ELSE a

RECURSIVE GCD(_, _)
GCD(a, b) == IF b = 0 THEN a ELSE GCD(b, a % b)

\* max(dx, dy, key=abs): the first argument wins a tie
max_abs(dx, dy) == IF Abs(dy) > Abs(dx) THEN dy ELSE dx

\* ------------------------------------------------------- CropBox geometry
\* variant: the position is clamped to the image, not to image less side
clamp_move_edge(b, iw, ih, u) ==
    LET side == b[3] - b[1]
        x0   == Max(0, Min(b[1], iw * u))
        y0   == Max(0, Min(b[2], ih * u))
    IN  <<x0, y0, x0 + side, y0 + side>>

\* CropBox._clamp_move
clamp_move(b, iw, ih, u) ==
    LET side == b[3] - b[1]
        x0   == Max(0, Min(b[1], iw * u - side))
        y0   == Max(0, Min(b[2], ih * u - side))
    IN  <<x0, y0, x0 + side, y0 + side>>

\* the corner update of CropBox._resize (lines 139-151)
\* variant: the bottom-left handle moves the edges of the top-right one
resize_corner_tr(b, delta, idx) ==
    CASE idx = 0 -> <<b[1] + delta, b[2] + delta, b[3], b[4]>>
      [] idx = 1 -> <<b[1], b[2] - delta, b[3] + delta, b[4]>>
      [] idx = 2 -> <<b[1], b[2], b[3] + delta, b[4] + delta>>
      [] idx = 3 -> <<b[1], b[2] - delta, b[3] + delta, b[4]>>
      [] OTHER   -> b

resize_corner(b, delta, idx) ==
    CASE idx = 0 -> <<b[1] + delta, b[2] + delta, b[3], b[4]>>
      [] idx = 1 -> <<b[1], b[2] - delta, b[3] + delta, b[4]>>
      [] idx = 2 -> <<b[1], b[2], b[3] + delta, b[4] + delta>>
      [] idx = 3 -> <<b[1] - delta, b[2], b[3], b[4] + delta>>
      [] OTHER   -> b

\* variant: only x1 is recomputed, line 165 is missing
resquare_x(b, side) == <<b[1], b[2], b[1] + side, b[4]>>

\* the final re-squaring of CropBox._resize (lines 164-165)
resquare(b, side) == <<b[1], b[2], b[1] + side, b[2] + side>>

\* variant: no minimum side
floor_side_none(side, u) == side

\* the minimum side of CropBox._resize (line 155)
floor_side(side, u) == Max(MIN_SIDE * u, side)

\* CropBox._resize
resize(b, dx, dy, idx, iw, ih, u) ==
    LET delta == max_abs(dx, dy)
        c0    == resize_corner(b, delta, idx)
        side  == floor_side(c0[3] - c0[1], u)
        c1    == IF c0[1] < 0 THEN <<0, c0[2], side, c0[4]>> ELSE c0
        c2    == IF c1[2] < 0 THEN <<c1[1], 0, c1[3], side>> ELSE c1
        c3    == IF c2[3] > iw * u
                 THEN <<iw * u - side, c2[2], iw * u, c2[4]>> ELSE c2
        c4    == IF c3[4] > ih * u
                 THEN <<c3[1], ih * u - side, c3[3], ih * u>> ELSE c3
    IN  resquare(c4, side)

\* variant: the odd pixel of the margin goes to the left and the top
default_box_ceil(crop, img_w, img_h, u) ==
    LET side  == Min(crop, Min(img_w, img_h))
        pad_x == (img_w - side + 1) \div 2
        pad_y == (img_h - side + 1) \div 2
    IN  <<pad_x * u, pad_y * u, (pad_x + side) * u, (pad_y + side) * u>>

\* the default box of CropBox.__init__ (lines 58-61) when CFG["crop_size"]
\* is crop; // is floor division
default_box_of(crop, img_w, img_h, u) ==
    LET side  == Min(crop, Min(img_w, img_h))
        pad_x == (img_w - side) \div 2
        pad_y == (img_h - side) \div 2
    IN  <<pad_x * u, pad_y * u, (pad_x + side) * u, (pad_y + side) * u>>

\* ... with the crop_size of the settings file
default_box(img_w, img_h, u) == default_box_of(crop_size, img_w, img_h, u)

\* int(): truncation toward zero of n / d, d > 0
trunc(n, d) == IF n >= 0 THEN n \div d ELSE -((-n) \div d)

\* CropBox.get_box (lines 169-170): tuple(map(int, self.box))
get_box(b, u) ==
    <<trunc(b[1], u), trunc(b[2], u), trunc(b[3], u), trunc(b[4], u)>>

\* the four handle rectangles drawn by CropBox.redraw, in 1/sd display px
redraw(b, sc) ==
    LET r == HANDLE_R * sc[2]
        h(hx, hy) == <<hx - r, hy - r, hx + r, hy + r>>
    IN  <<h(b[1], b[2]), h(b[3], b[2]), h(b[3], b[4]), h(b[1], b[4])>>

\* ------------------------------------------------------------ face_crop.py
\* variant: x0, y0 are not recomputed from the clamped x1, y1
find_face_square_cut(w, h, side_max, pad, det) ==
    LET bw   == det[3]
        bh   == det[4]
        side == Min(Min(Max(bw, bh) + 2 * pad, side_max), Min(w, h))
        cx   == det[1] + bw \div 2
        cy   == det[2] + bh \div 2
        x0   == Max(0, cx - side \div 2)
        y0   == Max(0, cy - side \div 2)
        x1   == Min(w, x0 + side)
        y1   == Min(h, y0 + side)
    IN  <<x0, y0, x1, y1>>

\* find_face_square lines 43-58, from the detected rectangle det =
\* <<x0, y0, bw, bh>> in an image of w x h pixels
find_face_square(w, h, side_max, pad, det) ==
    LET bw   == det[3]
        bh   == det[4]
        side == Min(Min(Max(bw, bh) + 2 * pad, side_max), Min(w, h))
        cx   == det[1] + bw \div 2
        cy   == det[2] + bh \div 2
        x0   == Max(0, cx - side \div 2)
        y0   == Max(0, cy - side \div 2)
        x1   == Min(w, x0 + side)
        y1   == Min(h, y0 + side)
    IN  <<x1 - side, y1 - side, x1, y1>>

\* the region suggester as load_img calls it (lines 226-228)
face_of(w, h, det) ==
    IF det = NoFace THEN None
    ELSE find_face_square(w, h, Min(w, h), pad_px, det)

\* ---------------------------------------------------------------- App
\* scale = min(max_w / w, max_h / h, 1) as a fraction in lowest terms
\* (load_img lines 232-234)
scale_of(cw, ch, w, h) ==
    LET max_w == IF cw - 20 = 0 THEN 1000 ELSE cw - 20
        max_h == IF ch - 20 = 0 THEN 700 ELSE ch - 20
        f     == IF max_w >= w /\ max_h >= h THEN <<1, 1>>
                 ELSE IF max_w * h <= max_h * w THEN <<max_w, w>>
                 ELSE <<max_h, h>>
        d     == GCD(f[1], f[2])
    IN  <<f[1] \div d, f[2] \div d>>

Scaled(b, u) == <<b[1] * u, b[2] * u, b[3] * u, b[4] * u>>

VARIABLES
    idx,        \* App.idx, 0-based index into img_paths
    saved,      \* App.saved, indices of the images saved
    closed,     \* TRUE once App.destroy() has run
    dialog,     \* "Done" while a call of next_img waits in
                \* messagebox.showinfo("Done", ...) (line 286) with its
                \* self.destroy() (line 287) still to run; else "None"
    face,       \* App.initial_face_box, None or <<x0, y0, x1, y1>> in px
    iw, ih,     \* CropBox.iw, CropBox.ih (pixels)
    s,          \* CropBox.s as <<sn, sd>>
    box,        \* CropBox.box, in 1/sn px
    drag_mode,  \* CropBox.drag_mode: "None", "move" or a handle name
    start_xy,   \* CropBox.start_xy (display px)
    start_box,  \* CropBox.start_box, in 1/sn px
    handles,    \* canvas coordinates of CropBox.handles, in 1/sd display px
    button,     \* TRUE while mouse button 1 is held down
    ev,         \* the last event handled: [kind, x, y]
    g,          \* history of the current gesture, see Gesture
    gest,       \* number of presses so far
    cropped,    \* the call self.orig.crop(box) of the last handler, if it
                \* made one: the box and the size of the image; else None
    arg         \* the arguments of a direct call of CropBox(...), of
                \* find_face_square(...) or of the cropper set-up of
                \* load_img; None while the application runs

app_vars  == <<idx, saved, closed, dialog, face>>
crop_vars == <<iw, ih, s, box, drag_mode, start_xy, start_box, handles>>
hist_vars == <<ev, g, gest>>
vars == <<idx, saved, closed, dialog, face, iw, ih, s, box, drag_mode,
          start_xy, start_box, handles, button, ev, g, gest, cropped,
          arg>>

\* handle names in the order CropBox.redraw appends them (line 88)
Corners == <<"TL", "TR", "BR", "BL">>
corner_idx(m) == CHOOSE i \in 0..3 : Corners[i + 1] = m

Event(k, x, y) == [kind |-> k, x |-> x, y |-> y]
\* history: the box and the pointer position at the last press, the
\* drag_mode that press selected, the number of drags handled since
\* (counted up to 2), the phase: "none" (no press since the image was
\* loaded), "active" (pressed, not released) or "done" (released), and
\* prior: the press followed a completed gesture on the same cropper
Gesture(b, xy, m, n, ph, pr) ==
    [box |-> b, xy |-> xy, mode |-> m, n |-> n, phase |-> ph, prior |-> pr]
NoGesture == Gesture(<<0, 0, 0, 0>>, <<0, 0>>, "None", 0, "none", FALSE)
\* history after a load: no press yet on the new cropper; mode keeps the
\* drag_mode m the replaced cropper was in when the image was loaded
Cancelled(m) == [NoGesture EXCEPT !.mode = m]

\* the cropper App.load_img builds for an image of w by h pixels shown at
\* scale sc when initial_face_box is fb (lines 242-246): CropBox.__init__,
\* then cropper.box = list(initial_face_box) and a redraw
cropper_of(w, h, sc, fb) ==
    LET u  == sc[1]
        d  == default_box(w, h, u)
        b  == IF fb /= None THEN Scaled(fb, u) ELSE d
    IN  [face |-> fb, iw |-> w, ih |-> h, s |-> sc, box |-> b,
         start_box |-> d, handles |-> redraw(b, sc)]

\* the cropper App.load_img builds for image i on a canvas of size cv when
\* the region suggester returned fb (lines 226-246)
cropper_with(i, cv, fb) ==
    cropper_of(ImgW(i), ImgH(i),
               scale_of(cv[1], cv[2], ImgW(i), ImgH(i)), fb)

load_img(i, cv, det) == cropper_with(i, cv, face_of(ImgW(i), ImgH(i), det))

\* ------------------------------------------------------- pointer handlers
\* is display point p inside canvas rectangle r (1/sd display px)?
\* (on_press lines 106-113; at a scale of Scales)
in_rect(r, p, sc) ==
    CASE sc \in Scales ->
        /\ r[1] <= p[1] * sc[2] /\ p[1] * sc[2] <= r[3]
        /\ r[2] <= p[2] * sc[2] /\ p[2] * sc[2] <= r[4]

\* variant: the rectangle is tested before the handles
press_mode_box_first(b, hs, sc, p, cur) ==
    LET hit == {i \in 0..3 : in_rect(hs[i + 1], p, sc)}
    IN  IF in_rect(b, p, sc) THEN "move"
        ELSE IF hit /= {}
        THEN Corners[(CHOOSE i \in hit : \A j \in hit : i <= j) + 1]
        ELSE cur

\* variant: a press off the handles always starts a move
press_mode_any_move(b, hs, sc, p, cur) ==
    LET hit == {i \in 0..3 : in_rect(hs[i + 1], p, sc)}
    IN  IF hit /= {}
        THEN Corners[(CHOOSE i \in hit : \A j \in hit : i <= j) + 1]
        ELSE "move"

\* the drag_mode CropBox.on_press leaves (lines 105-114): the first handle
\* under the pointer, else "move" inside the rectangle, else unchanged
press_mode(b, hs, sc, p, cur) ==
    LET hit == {i \in 0..3 : in_rect(hs[i + 1], p, sc)}
    IN  IF hit /= {}
        THEN Corners[(CHOOSE i \in hit : \A j \in hit : i <= j) + 1]
        ELSE IF in_rect(b, p, sc) THEN "move" ELSE cur

\* the box CropBox.on_drag computes (lines 119-127) from the start box sb,
\* the press position sxy and the pointer position p, at a scale of Scales
drag_box(sb, sxy, p, mode, w, h, sc) ==
    LET dx == (p[1] - sxy[1]) * sc[2]
        dy == (p[2] - sxy[2]) * sc[2]
    IN  CASE sc \in Scales ->
            IF mode = "move"
            THEN clamp_move(<<sb[1] + dx, sb[2] + dy,
                              sb[3] + dx, sb[4] + dy>>, w, h, sc[1])
            ELSE resize(sb, dx, dy, corner_idx(mode), w, h, sc[1])

\* variant: the press keeps the start box of the gesture before
on_press_stale(p) ==
    /\ ~closed /\ ~button /\ gest < MaxGestures
    /\ button' = TRUE
    /\ start_xy' = p
    /\ drag_mode' = press_mode(box, handles, s, p, drag_mode)
    /\ ev' = Event("press", p[1], p[2])
    /\ g' = Gesture(box, p, drag_mode', 0, "active", g.phase = "done")
    /\ gest' = gest + 1
    /\ cropped' = None
    /\ UNCHANGED <<arg, app_vars, iw, ih, s, box, start_box, handles>>

\* CropBox.on_press, bound to <ButtonPress-1>
on_press(p) ==
    /\ ~closed /\ ~button /\ gest < MaxGestures
    /\ button' = TRUE
    /\ start_xy' = p
    /\ start_box' = box
    /\ drag_mode' = press_mode(box, handles, s, p, drag_mode)
    /\ ev' = Event("press", p[1], p[2])
    /\ g' = Gesture(box, p, drag_mode', 0, "active", g.phase = "done")
    /\ gest' = gest + 1
    /\ cropped' = None
    /\ UNCHANGED <<arg, app_vars, iw, ih, s, box, handles>>

\* variant: each drag starts from the live box instead of the start box
on_drag_live(p) ==
    /\ ~closed /\ button
    /\ IF drag_mode = "None"
       THEN UNCHANGED <<box, handles>>
       ELSE /\ box' = drag_box(box, start_xy, p, drag_mode, iw, ih, s)
            /\ handles' = redraw(box', s)
    /\ ev' = Event("drag", p[1], p[2])
    /\ g' = IF g.phase = "active"
            THEN [g EXCEPT !.n = Min(g.n + 1, 2)] ELSE g
    /\ cropped' = None
    /\ UNCHANGED <<arg, app_vars, iw, ih, s, drag_mode, start_xy, start_box,
                   button, gest>>

\* CropBox.on_drag, bound to <B1-Motion>
on_drag(p) ==
    /\ ~closed /\ button
    /\ IF drag_mode = "None"
       THEN UNCHANGED <<box, handles>>
       ELSE /\ box' = drag_box(start_box, start_xy, p, drag_mode, iw, ih, s)
            /\ handles' = redraw(box', s)
    /\ ev' = Event("drag", p[1], p[2])
    /\ g' = IF g.phase = "active"
            THEN [g EXCEPT !.n = Min(g.n + 1, 2)] ELSE g
    /\ cropped' = None
    /\ UNCHANGED <<arg, app_vars, iw, ih, s, drag_mode, start_xy, start_box,
                   button, gest>>

\* variant: the release puts the box back where the gesture started
on_release_revert ==
    /\ ~closed /\ button
    /\ button' = FALSE
    /\ drag_mode' = "None"
    /\ box' = start_box
    /\ handles' = redraw(box', s)
    /\ ev' = Event("release", 0, 0)
    /\ g' = IF g.phase = "active" THEN [g EXCEPT !.phase = "done"] ELSE g
    /\ cropped' = None
    /\ UNCHANGED <<arg, app_vars, iw, ih, s, start_xy, start_box, gest>>

\* variant: the release leaves drag_mode as the press set it
on_release_keep ==
    /\ ~closed /\ button
    /\ button' = FALSE
    /\ ev' = Event("release", 0, 0)
    /\ g' = IF g.phase = "active" THEN [g EXCEPT !.phase = "done"] ELSE g
    /\ cropped' = None
    /\ UNCHANGED <<arg, app_vars, iw, ih, s, box, drag_mode, start_xy,
                   start_box, handles, gest>>

\* the <ButtonRelease-1> binding (line 70)
on_release ==
    /\ ~closed /\ button
    /\ button' = FALSE
    /\ drag_mode' = "None"
    /\ ev' = Event("release", 0, 0)
    /\ g' = IF g.phase = "active" THEN [g EXCEPT !.phase = "done"] ELSE g
    /\ cropped' = None
    /\ UNCHANGED <<arg, app_vars, iw, ih, s, box, start_xy, start_box, handles,
                   gest>>

\* ------------------------------------------------------------ image cycle
\* the face boxes the region suggester can return, by image index
Suggestions ==
    [i \in 0..NumImages - 1 |->
        {face_of(ImgW(i), ImgH(i), d) : d \in Detections}]

\* variant: the cropper of the image before is kept and only its box is
\* set for the new image
install_keep(c) ==
    /\ face' = c.face
    /\ iw' = c.iw /\ ih' = c.ih /\ s' = c.s
    /\ box' = c.box
    /\ handles' = c.handles
    /\ ev' = Event("load", 0, 0)
    /\ g' = Cancelled(drag_mode)
    /\ UNCHANGED <<drag_mode, start_xy, start_box>>

\* the assignments of App.load_img and CropBox.__init__ for cropper c
install(c) ==
    /\ face' = c.face
    /\ iw' = c.iw /\ ih' = c.ih /\ s' = c.s
    /\ box' = c.box
    /\ drag_mode' = "None"
    /\ start_xy' = <<0, 0>>
    /\ start_box' = c.start_box
    /\ handles' = c.handles
    /\ ev' = Event("load", 0, 0)
    /\ g' = Cancelled(drag_mode)

\* variant: past the last image the application closes whatever was saved
next_from_close(sv, fbs) ==
    IF idx < NumImages - 1
    THEN /\ idx' = idx + 1
         /\ \E cv \in CanvasSizes, fb \in fbs[idx + 1] :
                install(cropper_with(idx + 1, cv, fb))
         /\ dialog' = dialog
    ELSE /\ idx' = idx
         /\ dialog' = "Done" /\ ev' = Event("done", 0, 0)
         /\ UNCHANGED <<face, crop_vars, g>>

\* App.next_img (lines 280-293) up to the point where it returns or
\* waits, with the image at the new index suggested one of fbs.  At the
\* last image with everything saved it enters showinfo("Done", ...),
\* whose event loop runs until the dialog is dismissed; destroy is its
\* continuation.  The "Reached end" dialog waits the same way, but
\* next_img does nothing after it, so that wait leaves no trace.
next_from(sv, fbs) ==
    IF idx < NumImages - 1
    THEN /\ idx' = idx + 1
         /\ \E cv \in CanvasSizes, fb \in fbs[idx + 1] :
                install(cropper_with(idx + 1, cv, fb))
         /\ dialog' = dialog
    ELSE /\ idx' = idx
         /\ IF Cardinality(sv) = NumImages
            THEN dialog' = "Done" /\ ev' = Event("done", 0, 0)
            ELSE dialog' = dialog /\ ev' = Event("end", 0, 0)
         /\ UNCHANGED <<face, crop_vars, g>>

\* the "Done" dialog is dismissed and next_img goes on to self.destroy()
\* (line 287).  Until then the dialog's event loop may dispatch the
\* application's other handlers (the dialog's grab is not always
\* obtained), so they stay enabled while dialog = "Done".  Of several
\* nested "Done" dialogs the innermost returns first and its destroy
\* closes the application; the destroys of the outer ones change nothing.
destroy ==
    /\ ~closed /\ dialog = "Done"
    /\ closed' = TRUE
    /\ dialog' = "None"
    /\ ev' = Event("exit", 0, 0)
    /\ UNCHANGED <<idx, saved, face, crop_vars, button, g, gest, cropped,
                   arg>>

\* App.next_img, bound to <Right> and the Next button
next_img(fbs) ==
    /\ ~closed
    /\ next_from(saved, fbs)
    /\ cropped' = None
    /\ UNCHANGED <<saved, closed, button, gest, arg>>

\* App.skip_img
skip_img(fbs) ==
    /\ ~closed
    /\ next_from(saved, fbs)
    /\ cropped' = None
    /\ UNCHANGED <<saved, closed, button, gest, arg>>

\* App.save_img
save_img(fbs) ==
    /\ ~closed
    /\ cropped' = [box |-> get_box(box, s[1]), w |-> iw, h |-> ih]
    /\ saved' = saved \cup {idx}
    /\ next_from(saved', fbs)
    /\ UNCHANGED <<closed, button, gest, arg>>

\* App.prev_img
prev_img(fbs) ==
    /\ ~closed
    /\ IF idx > 0
       THEN /\ idx' = idx - 1
            /\ \E cv \in CanvasSizes, fb \in fbs[idx - 1] :
                   install(cropper_with(idx - 1, cv, fb))
       ELSE /\ ev' = Event("first", 0, 0)
            /\ UNCHANGED <<idx, face, crop_vars, g>>
    /\ cropped' = None
    /\ UNCHANGED <<saved, closed, dialog, button, gest, arg>>

\* App.__init__ with a non-empty input folder
init_from(fbs) ==
    /\ idx = 0 /\ saved = {} /\ closed = FALSE /\ dialog = "None"
    /\ button = FALSE /\ gest = 0 /\ arg = None /\ cropped = None
    /\ drag_mode = "None" /\ start_xy = <<0, 0>>
    /\ ev = Event("load", 0, 0) /\ g = NoGesture
    /\ \E cv \in CanvasSizes, fb \in fbs[0] :
          LET c == cropper_with(0, cv, fb)
          IN  /\ face = c.face /\ iw = c.iw /\ ih = c.ih /\ s = c.s
              /\ box = c.box /\ start_box = c.start_box
              /\ handles = c.handles

Init == init_from(Suggestions)

Press == \E p \in Ptr : on_press(p)
Drag == \E p \in Ptr : on_drag(p)
Release == on_release
NextImg == next_img(Suggestions)
PrevImg == prev_img(Suggestions)
SaveImg == save_img(Suggestions)
SkipImg == skip_img(Suggestions)
Destroy == destroy

Next ==
    \/ Press
    \/ Drag
    \/ Release
    \/ NextImg
    \/ PrevImg
    \/ SaveImg
    \/ SkipImg
    \/ Destroy

Spec == Init /\ [][Next]_vars

\* ------------------------------------------------------------ direct calls
\* CropBox(canvas, img_w, img_h, scale) and find_face_square(pil_img,
\* side_max, pad_px) called on their own, on arguments the application
\* does not produce: image sizes down to -1, every crop_size setting,
\* detected rectangles that leave the image.  The cropper set-up of
\* load_img (lines 242-246) is run on its own too, with initial_face_box
\* as its argument: the application only ever hands it a result of
\* find_face_square, here it also gets boxes a region suggester without
\* that function's clamp would return.
CropArgs ==
    {[fn |-> "CropBox", img_w |-> w, img_h |-> h, scale |-> sc, crop |-> c] :
        w \in -1..MaxDim, h \in -1..MaxDim, sc \in Scales,
        c \in 1..MaxDim + 1}
FaceRects ==
    {<<x, y, bw, bh>> : x \in {-2, 0, 3, MaxDim - 1},
                        y \in {-2, 0, 3, MaxDim - 1},
                        bw \in {0, 1, 3, MaxDim + 1},
                        bh \in {0, 1, 3, MaxDim + 1}}
FaceArgs ==
    {[fn |-> "find_face_square", w |-> w, h |-> h, side_max |-> m,
      pad |-> pd, det |-> d] :
        w \in 1..MaxDim, h \in 1..MaxDim, m \in {2, MaxDim},
        pd \in {0, 1}, d \in FaceRects \cup {NoFace}}

\* face boxes (x0, y0, x1, y1) in pixels for an image of w by h: one
\* square inside the image, one past the right and bottom edge, one
\* before the left and top edge, one non-square, one inverted
FaceBoxes(w, h) ==
    {<<0, 0, Min(w, h), Min(w, h)>>,
     <<w - 1, h - 1, w + 2, h + 2>>,
     <<-1, -1, 1, 1>>,
     <<0, 0, w, h + 1>>,
     <<w, h, 0, 0>>}
AdoptArgs ==
    UNION {{[fn |-> "load_img", img_w |-> wh[1], img_h |-> wh[2],
             scale |-> sc, face_box |-> fb] :
                sc \in Scales, fb \in FaceBoxes(wh[1], wh[2])} :
           wh \in (1..MaxDim) \X (1..MaxDim)}

\* nothing is built yet
InitCalls ==
    /\ arg \in CropArgs \cup FaceArgs \cup AdoptArgs
    /\ idx = 0 /\ saved = {} /\ closed = FALSE /\ face = None
    /\ dialog = "None"
    /\ iw = 0 /\ ih = 0 /\ s = <<1, 1>>
    /\ box = None /\ start_box = None /\ handles = None
    /\ drag_mode = "None" /\ start_xy = <<0, 0>>
    /\ button = FALSE /\ gest = 0 /\ cropped = None
    /\ ev = Event("call", 0, 0) /\ g = NoGesture

\* CropBox.__init__ (lines 55-66)
CallCropBox ==
    /\ ev.kind = "call" /\ arg.fn = "CropBox"
    /\ iw' = arg.img_w /\ ih' = arg.img_h /\ s' = arg.scale
    /\ box' = default_box_of(arg.crop, arg.img_w, arg.img_h, arg.scale[1])
    /\ drag_mode' = "None"
    /\ start_xy' = <<0, 0>>
    /\ start_box' = box'
    /\ handles' = redraw(box', arg.scale)
    /\ ev' = Event("init", 0, 0)
    /\ cropped' = None
    /\ UNCHANGED <<arg, app_vars, button, g, gest, cropped>>

\* find_face_square (lines 21-58): None when nothing is detected
CallFindFace ==
    /\ ev.kind = "call" /\ arg.fn = "find_face_square"
    /\ face' = IF arg.det = NoFace THEN None
               ELSE find_face_square(arg.w, arg.h, arg.side_max, arg.pad,
                                     arg.det)
    /\ ev' = Event("face", 0, 0)
    /\ UNCHANGED <<arg, idx, saved, closed, dialog, crop_vars, button, g,
                   gest,
                   cropped>>

\* load_img lines 242-246 with initial_face_box = arg.face_box
CallAdopt ==
    /\ ev.kind = "call" /\ arg.fn = "load_img"
    /\ LET c == cropper_of(arg.img_w, arg.img_h, arg.scale, arg.face_box)
       IN  /\ face' = c.face
           /\ iw' = c.iw /\ ih' = c.ih /\ s' = c.s
           /\ box' = c.box
           /\ drag_mode' = "None"
           /\ start_xy' = <<0, 0>>
           /\ start_box' = c.start_box
           /\ handles' = c.handles
    /\ ev' = Event("adopt", 0, 0)
    /\ UNCHANGED <<arg, idx, saved, closed, dialog, button, g, gest,
                   cropped>>

NextCalls ==
    \/ CallCropBox
    \/ CallFindFace
    \/ CallAdopt

SpecCalls == InitCalls /\ [][NextCalls]_vars

\* ------------------------------------------------------------ one gesture
\* One gesture on the default box or on a box a run has placed elsewhere
\* in the image: a press on a corner or on the centre of the box, then
\* drag events up to MaxDelta display pixels away from the press on each
\* axis, then possibly a save.
GeomBoxes ==
    {<<x, y, x + d, y + d>> : x \in {0, 4, 8}, y \in {0, 3, 6},
                              d \in {12, 16}}
        \cup {default_box(ImgW(0), ImgH(0), 1)}
\* the display pixel of the corners and of the centre of box b
PressPoints(b, sc) ==
    LET px(v) == v \div sc[2]
    IN  {<<px(b[1]), px(b[2])>>, <<px(b[3]), px(b[2])>>,
         <<px(b[3]), px(b[4])>>, <<px(b[1]), px(b[4])>>,
         <<px((b[1] + b[3]) \div 2), px((b[2] + b[4]) \div 2)>>}

\* the cropper of image 0 with box b0, after on_press at p
InitGeom ==
    \E cv \in CanvasSizes, b0 \in GeomBoxes :
        LET c  == cropper_with(0, cv, None)
            b  == Scaled(b0, c.s[1])
            hs == redraw(b, c.s)
        IN  \E p \in PressPoints(b, c.s) :
                /\ idx = 0 /\ saved = {} /\ closed = FALSE /\ face = None
                /\ dialog = "None"
                /\ arg = None /\ cropped = None
                /\ iw = c.iw /\ ih = c.ih /\ s = c.s
                /\ box = b /\ handles = hs
                /\ start_xy = p /\ start_box = b
                /\ drag_mode = press_mode(b, hs, c.s, p, "None")
                /\ button = TRUE /\ gest = 1
                /\ ev = Event("press", p[1], p[2])
                /\ g = Gesture(b, p, drag_mode, 0, "active", FALSE)

DragGeom ==
    \E dx \in -MaxDelta..MaxDelta, dy \in -MaxDelta..MaxDelta :
        on_drag(<<start_xy[1] + dx, start_xy[2] + dy>>)

NextGeom ==
    \/ DragGeom
    \/ SaveImg
    \/ Destroy

SpecGeom == InitGeom /\ [][NextGeom]_vars

\* ------------------------------------------------------------ properties
\* all in the cropper's unit of 1/sn pixel
Side(b) == b[3] - b[1]
Square(b) == b[3] - b[1] = b[4] - b[2]
Inside(b, w, h, u) ==
    /\ 0 <= b[1] /\ 0 <= b[2]
    /\ b[3] <= w * u /\ b[4] <= h * u
ValidBox(b, w, h, u) ==
    /\ b[1] < b[3] /\ b[2] < b[4]
    /\ Square(b) /\ Inside(b, w, h, u)

\* a drag event has just been handled
AfterDrag == ev.kind = "drag"
\* ... in a gesture that is moving or resizing the box
Dragging == AfterDrag /\ g.phase = "active" /\ g.mode /= "None"
Resizing == Dragging /\ g.mode /= "move"
\* the pointer delta of the last drag event in 1/sn pixels:
\* (pointer - press position) / s
DeltaX == (ev.x - g.xy[1]) * s[2]
DeltaY == (ev.y - g.xy[2]) * s[2]

\* C1: after every drag step, move or resize, the box lies inside the
\* image: 0 <= x0, 0 <= y0, x1 <= width, y1 <= height.
Containment == AfterDrag => Inside(box, iw, ih, s[1])

\* C2: after every drag step that moves or resizes the box, the box is
\* square: x1 - x0 = y1 - y0.
Squareness == Dragging => Square(box)

\* a resize drag has changed the side of the box, which is square
SquareAfterResize ==
    /\ Resizing
    /\ Side(box) /= Side(g.box)
    /\ Square(box)

\* the side a resize drag asks for: the start side less delta for the
\* top-left corner, plus delta for the others
RequestedSide ==
    LET d == IF Abs(DeltaY) > Abs(DeltaX) THEN DeltaY ELSE DeltaX
    IN  IF g.mode = "TL" THEN Side(g.box) - d ELSE Side(g.box) + d

\* C3: after every corner-resize drag step the side is at least MIN_SIDE,
\* and it is exactly MIN_SIDE when the drag asks for a smaller side.
MinimumSide ==
    Resizing =>
        /\ Side(box) >= MIN_SIDE * s[1]
        /\ RequestedSide < MIN_SIDE * s[1] => Side(box) = MIN_SIDE * s[1]

\* a resize drag asked for a negative side and the side is MIN_SIDE
FlooredResize ==
    /\ Resizing
    /\ RequestedSide < 0
    /\ Side(box) = MIN_SIDE * s[1]

\* C4: after the cropper is set up for an image with a suggested box,
\* whatever the suggestion (also one out of the image, non-square or
\* inverted), the crop box is square and inside the image.
SuggestionAdopted ==
    (ev.kind \in {"load", "adopt"} /\ face /= None) =>
        /\ Square(box)
        /\ Inside(box, iw, ih, s[1])

Clamp(v, lo, hi) == IF v < lo THEN lo ELSE IF v > hi THEN hi ELSE v

\* C5: a move drag step from a valid start box puts the box at
\* x0 = clamp(x0 + dx, 0, width - side), y0 = clamp(y0 + dy, 0, height -
\* side) and keeps its side.
MoveSemantics ==
    (Dragging /\ g.mode = "move"
       /\ ValidBox(start_box, iw, ih, s[1])) =>
        LET side == Side(start_box)
            x0 == Clamp(start_box[1] + DeltaX, 0, iw * s[1] - side)
            y0 == Clamp(start_box[2] + DeltaY, 0, ih * s[1] - side)
        IN  box = <<x0, y0, x0 + side, y0 + side>>

\* a move drag from a valid box was stopped at the left edge and moved
\* freely along the other axis
ClampedMove ==
    /\ Dragging /\ g.mode = "move"
    /\ ValidBox(start_box, iw, ih, s[1])
    /\ start_box[1] + DeltaX < 0
    /\ box[1] = 0
    /\ box[2] = start_box[2] + DeltaY
    /\ DeltaY /= 0

\* the pointer position of the last event
EvXY == <<ev.x, ev.y>>

\* C6: within a gesture the box after any drag event is the box one drag
\* from the box at press straight to the current pointer position gives,
\* whatever drag events came in between.
NoDrift ==
    Dragging => box = drag_box(g.box, g.xy, EvXY, g.mode, iw, ih, s)

\* a second drag event of one gesture has moved the box from its place
\* at press
SecondDrag ==
    /\ Dragging
    /\ g.n = 2
    /\ box /= g.box

\* the box as load_img left it
LoadBox ==
    IF face = None THEN default_box(iw, ih, s[1]) ELSE Scaled(face, s[1])

\* C7: a press that follows a completed gesture on the same image anchors
\* on its own position and on the box at that press, and the first drag
\* of the new gesture is computed from those.
GestureIsolation ==
    (g.phase = "active" /\ g.prior) =>
        /\ start_xy = g.xy
        /\ start_box = g.box
        /\ (Dragging /\ g.n = 1) =>
               box = drag_box(g.box, g.xy, EvXY, g.mode, iw, ih, s)

\* the first drag of a second gesture, from a box the first gesture had
\* changed: the start box of the first gesture would give another result
SecondGestureDrag ==
    /\ Dragging /\ g.prior /\ g.n = 1
    /\ g.box /= LoadBox
    /\ box /= drag_box(LoadBox, g.xy, EvXY, g.mode, iw, ih, s)

\* display point p is within HANDLE_R display pixels of corner i of box b
HitBox(b, sc, i, p) ==
    LET cx == IF i \in {0, 3} THEN b[1] ELSE b[3]
        cy == IF i \in {0, 1} THEN b[2] ELSE b[4]
    IN  /\ Abs(p[1] * sc[2] - cx) <= HANDLE_R * sc[2]
        /\ Abs(p[2] * sc[2] - cy) <= HANDLE_R * sc[2]
Hits(b, sc, p) == {i \in 0..3 : HitBox(b, sc, i, p)}
\* display point p is inside box b, edges included
InBox(b, sc, p) ==
    /\ b[1] <= p[1] * sc[2] /\ p[1] * sc[2] <= b[3]
    /\ b[2] <= p[2] * sc[2] /\ p[2] * sc[2] <= b[4]
AfterPress == ev.kind = "press"

\* C8 as stated: a press within the hit-box of a corner starts resizing
\* for that corner, also inside the box; a press on no handle and inside
\* the box starts a move.
HandlePriority ==
    AfterPress =>
        /\ \A i \in Hits(box, s, EvXY) : drag_mode = Corners[i + 1]
        /\ (Hits(box, s, EvXY) = {} /\ InBox(box, s, EvXY)) =>
               drag_mode = "move"

\* C8 amended: a press within the hit-box of one or more corners starts
\* resizing for the first of them in the order TL, TR, BR, BL, also inside
\* the box; a press on no handle and inside the box starts a move; the
\* hit-box is HANDLE_R display pixels around the corner at every scale.
FirstHandlePriority ==
    AfterPress =>
        LET hit == Hits(box, s, EvXY)
        IN  /\ hit /= {} =>
                  \E i \in hit : /\ \A j \in hit : i <= j
                                 /\ drag_mode = Corners[i + 1]
            /\ (hit = {} /\ InBox(box, s, EvXY)) => drag_mode = "move"

\* a press inside the box and within the hit-boxes of two corners, at a
\* display scale below 1
OverlappingHandles ==
    /\ AfterPress
    /\ s /= <<1, 1>>
    /\ InBox(box, s, EvXY)
    /\ Cardinality(Hits(box, s, EvXY)) >= 2
    /\ drag_mode \in {"TL", "TR", "BR", "BL"}

Missed(b, sc, p) == Hits(b, sc, p) = {} /\ ~InBox(b, sc, p)

PressReleaseKeepBox == [][button' /= button => box' = box]_vars

\* a gesture that changed the box has been released
ReleasedAfterChange ==
    /\ ev.kind = "release"
    /\ g.phase = "done" /\ g.mode /= "None"
    /\ box /= g.box

\* C11: a release leaves drag_mode None whatever it was before (None,
\* move or one of the four corners), and the drag events of a later
\* gesture on the same cropper whose press missed the box and the
\* handles do not change the box.
ReleaseIdles ==
    [][/\ ev'.kind = "release" => drag_mode' = "None"
       /\ ( /\ ev'.kind = "drag"
            /\ g.phase = "active" /\ g.prior
            /\ Missed(g.box, s, g.xy) ) => box' = box]_vars

\* a gesture that was resizing the box from a corner has been released
ReleasedFromResize ==
    /\ ev.kind = "release"
    /\ g.phase = "done" /\ g.mode \in {"TL", "TR", "BR", "BL"}
    /\ g.n >= 1
    /\ drag_mode = "None"

\* C12: loading an image while a gesture is in progress cancels the
\* gesture: from the load to the next press drag_mode is None, the anchor
\* and the start box are those of the new cropper, and the box stays the
\* default or the suggestion of the new image whatever drag events arrive.
LoadCancelsGesture ==
    g.phase = "none" =>
        /\ drag_mode = "None"
        /\ start_xy = <<0, 0>>
        /\ start_box = default_box(iw, ih, s[1])
        /\ box = LoadBox

\* an image was loaded while the button was down in a gesture that was
\* moving or resizing the box, and a drag event has arrived since
DragAfterLoad ==
    /\ AfterDrag
    /\ button
    /\ g.phase = "none" /\ g.mode /= "None"
    /\ idx > 0
    /\ box = LoadBox

\* C13: with no suggestion, for every image of width > 0 and height > 0
\* and every crop_size, the box CropBox.__init__ leaves is square, inside
\* the image and of side min(crop_size, width, height), at
\* x0 = floor((width - side) / 2), y0 = floor((height - side) / 2): the
\* left/top margin is not larger than the right/bottom margin and differs
\* from it by at most one pixel; 1000x600 with crop_size 512 gives margins
\* 244/244 and 44/44.
CentredDefault ==
    /\ default_box_of(512, 1000, 600, 1) = <<244, 44, 1000 - 244, 600 - 44>>
    /\ (ev.kind = "init" /\ arg.img_w > 0 /\ arg.img_h > 0) =>
           LET side  == Min(arg.crop, Min(arg.img_w, arg.img_h))
               u     == s[1]
               left  == box[1]
               top   == box[2]
               right == arg.img_w * u - box[3]
               bot   == arg.img_h * u - box[4]
           IN  /\ Side(box) = side * u
               /\ Square(box)
               /\ Inside(box, arg.img_w, arg.img_h, u)
               /\ left <= right /\ right <= left + u
               /\ top <= bot /\ bot <= top + u

\* a default box with one pixel more on the right than on the left, in
\* an image smaller than crop_size
OddMargin ==
    /\ ev.kind = "init"
    /\ arg.img_w > 0 /\ arg.img_h > 0
    /\ arg.crop > arg.img_h /\ arg.img_w > arg.img_h
    /\ arg.img_w * s[1] - box[3] = box[1] + s[1]
    /\ box[1] > 0

\* C14: a drag step with delta (0, 0), moving or resizing from any of the
\* four corners, leaves the box as it was at the press, for every box
\* reachable after the image load and gestures.
ZeroDragKeepsBox == (Dragging /\ EvXY = g.xy) => box = g.box

\* C15: building the crop box for an image of width <= 0 or height <= 0
\* fails and leaves no current box.
InvalidBoundsFail ==
    (arg /= None /\ arg.fn = "CropBox"
        /\ (arg.img_w <= 0 \/ arg.img_h <= 0)) => box = None

\* the box a resize drag asks for: the corner opposite the dragged one
\* stays (BR for TL, BL for TR, TL for BR, TR for BL) and the side is
\* RequestedSide
RequestedBox ==
    LET b  == g.box
        sd == RequestedSide
    IN  CASE g.mode = "TL" -> <<b[3] - sd, b[4] - sd, b[3], b[4]>>
          [] g.mode = "TR" -> <<b[1], b[4] - sd, b[1] + sd, b[4]>>
          [] g.mode = "BR" -> <<b[1], b[2], b[1] + sd, b[2] + sd>>
          [] g.mode = "BL" -> <<b[3] - sd, b[2], b[3], b[2] + sd>>
          [] OTHER -> b
\* neither the minimum side nor an image edge is in the way of it
Unclamped ==
    /\ RequestedSide >= MIN_SIDE * s[1]
    /\ Inside(RequestedBox, iw, ih, s[1])

\* C16: in a corner-resize drag step where neither the minimum side nor
\* an image edge applies, delta is the one of dx, dy of larger absolute
\* value (dx when they are equal), the corner opposite the dragged one
\* keeps its coordinates, and the side is the start side less delta for
\* TL, plus delta for TR, BR and BL.
UnclampedResize == (Resizing /\ Unclamped) => box = RequestedBox

\* an unclamped resize from the top-right or the bottom-left corner that
\* follows dy, the larger of the two
UnclampedByDy ==
    /\ Resizing /\ Unclamped
    /\ g.mode \in {"TR", "BL"}
    /\ Abs(DeltaY) > Abs(DeltaX) /\ DeltaX /= 0
    /\ Side(box) = Side(g.box) + DeltaY
    /\ box /= g.box

\* dx and dy both point away from the box at the dragged corner
Outward ==
    CASE g.mode = "TL" -> DeltaX < 0 /\ DeltaY < 0
      [] g.mode = "TR" -> DeltaX > 0 /\ DeltaY < 0
      [] g.mode = "BR" -> DeltaX > 0 /\ DeltaY > 0
      [] g.mode = "BL" -> DeltaX < 0 /\ DeltaY > 0
      [] OTHER -> FALSE

\* C17: a resize drag from any corner whose dx and dy both point away
\* from the box, with no minimum side and no image edge applying, gives a
\* side not smaller than the start side, whichever of |dx|, |dy| is
\* larger.
OutwardGrows ==
    (Resizing /\ Outward /\ Unclamped) => Side(box) >= Side(g.box)

\* C18: the box save_img hands to the crop is the current box truncated
\* coordinate by coordinate, and for every box reachable by gestures at a
\* display scale <= 1 it is square, not degenerate and inside the image.
SavedBoxValid ==
    cropped /= None =>
        LET b == cropped.box
        IN  /\ Square(b)
            /\ b[1] < b[3] /\ b[2] < b[4]
            /\ Inside(b, cropped.w, cropped.h, 1)

\* C19: for every detected rectangle, of any size and at any position,
\* also partly outside the image, in an image of width w > 0 and height
\* h > 0, find_face_square returns a box with
\* x1 - x0 = y1 - y0 = min(max(bw, bh) + 2 * pad_px, side_max, w, h),
\* 0 <= x0, 0 <= y0, x1 <= w and y1 <= h.
FaceSquareValid ==
    (ev.kind = "face" /\ arg.det /= NoFace) =>
        LET side == Min(Min(Max(arg.det[3], arg.det[4]) + 2 * arg.pad,
                            arg.side_max), Min(arg.w, arg.h))
        IN  /\ face[3] - face[1] = side
            /\ face[4] - face[2] = side
            /\ 0 <= face[1] /\ 0 <= face[2]
            /\ face[3] <= arg.w /\ face[4] <= arg.h

\* a detected rectangle that starts inside the image and passes its right
\* and bottom edge gave a square smaller than side_max and the image
FacePastEdge ==
    /\ ev.kind = "face" /\ arg.det /= NoFace
    /\ arg.det[1] < arg.w /\ arg.det[1] + arg.det[3] > arg.w
    /\ arg.det[2] < arg.h /\ arg.det[2] + arg.det[4] > arg.h
    /\ face[3] - face[1] < Min(arg.side_max, Min(arg.w, arg.h))
    /\ face[3] = arg.w /\ face[4] = arg.h

\* C20: after any sequence of next, previous, save and skip the index is
\* within 0 .. number of images - 1, a skip leaves the set of saved
\* images as it was, and the application is closed only when every image
\* index has been saved.
Navigation ==
    /\ [](idx \in 0..NumImages - 1)
    /\ [](closed => saved = 0..NumImages - 1)
    /\ [][saved' /= saved => ~SkipImg]_vars

\* the application has closed itself at the last image
ClosedAllSaved ==
    /\ closed
    /\ ev.kind = "exit"
    /\ idx = NumImages - 1
    /\ saved = 0..NumImages - 1

====
